---- MODULE Spec2Model ----
(***************************************************************************)
(* Model of optimisation/main.py: optimize_shifts.                         *)
(*                                                                         *)
(* The program builds a drivers x slots matrix of 0/1 variables, posts     *)
(* coverage, duration and window constraints, and runs two depth-first     *)
(* searches over the row-major flattening of the matrix:                   *)
(*   search 1: Solve(db, [obj_monitor, time_limit_ms, collector])          *)
(*   search 2: Solve(db, [time_limit_ms, collector])                       *)
(* The report is printed from the collector after search 2.                *)
(***************************************************************************)
EXTENDS Integers, Sequences, FiniteSets, TLC

\* ------------------------------------------------------------------ bounds
MaxDrivers == 2
MaxSlots   == 11
MaxVars    == 12
MaxDemand  == 2
MaxFairVars == 7

\* ------------------------------------------------------- program constants
num_vals == 2
min_h    == 4
max_h    == 10
step     == 1

VARIABLES drivers, demand, pc, bound, best, found_initial_solution,
          nsol, solutions, done, crossed, outcome

vars == <<drivers, demand, pc, bound, best, found_initial_solution,
          nsol, solutions, done, crossed, outcome>>

\* ------------------------------------------------------------ model builder
slots == Len(demand)

\* range(drivers): empty when drivers <= 0
DriverRange == 1..drivers

SlotRange == 1..slots

\* s_flat: row-major flattening, driver-major then slot
NumVars == IF drivers > 0 THEN drivers * slots ELSE 0

FlatIndex(j, i) == (j - 1) * slots + i

IsBound(a, j, i) == FlatIndex(j, i) <= Len(a)

\* current lower / upper end of the domain of shifts[(j,i)] under the
\* partial binding a (the domain is 0..num_vals-1 while unbound)
VarMin(a, j, i) == IF IsBound(a, j, i) THEN a[FlatIndex(j, i)] ELSE 0

VarMax(a, j, i) == IF IsBound(a, j, i) THEN a[FlatIndex(j, i)] ELSE num_vals - 1

RECURSIVE SumOver(_, _)
SumOver(f, S) ==
    IF S = {} THEN 0
    ELSE LET x == CHOOSE y \in S : TRUE IN f[x] + SumOver(f, S \ {x})

ColMax(a, i) == SumOver([j \in DriverRange |-> VarMax(a, j, i)], DriverRange)

RowMin(a, j) == SumOver([i \in SlotRange |-> VarMin(a, j, i)], SlotRange)

RowMax(a, j) == SumOver([i \in SlotRange |-> VarMax(a, j, i)], SlotRange)

\* variant: coverage posted with > in place of >=
DemandConstraint_Strict(a) == \A i \in SlotRange : ColMax(a, i) > demand[i]

\* Demand by timeslot.
DemandConstraint(a) == \A i \in SlotRange : ColMax(a, i) >= demand[i]

\* variant: the lower duration bound is not posted
DurationConstraint_NoMin(a) == \A j \in DriverRange : RowMin(a, j) <= max_h

\* variant: the upper duration bound is not posted
DurationConstraint_NoMax(a) == \A j \in DriverRange : RowMax(a, j) >= min_h

\* Maximum and minimum duration of shifts per driver.
DurationConstraint(a) ==
    \A j \in DriverRange : RowMax(a, j) >= min_h /\ RowMin(a, j) <= max_h

Max(x, y) == IF x >= y THEN x ELSE y

\* upper end of the 0/1 expression shifts[(j,i1)] == shifts[(j,i2)] under a:
\* 0 only when both variables are bound to different values
IsEqualMax(a, j, i1, i2) ==
    IF IsBound(a, j, i1) /\ IsBound(a, j, i2)
       /\ a[FlatIndex(j, i1)] # a[FlatIndex(j, i2)]
    THEN 0 ELSE 1

\* variant: only the 3-slot windows are posted
WindowConstraint_NoStride(a) ==
    \A j \in DriverRange :
       \A i \in 1..(slots - 2) :
          Max(IsEqualMax(a, j, i, i + 1), IsEqualMax(a, j, i + 1, i + 2)) = 1

\* Consecutive hours working: Max(x == y, y == z) == 1 over 3-slot windows
\* and over 5-slot windows sampled at stride 2.
WindowConstraint(a) ==
    \A j \in DriverRange :
       /\ \A i \in 1..(slots - 2) :
             Max(IsEqualMax(a, j, i, i + 1), IsEqualMax(a, j, i + 1, i + 2)) = 1
       /\ \A i \in 1..(slots - 4) :
             Max(IsEqualMax(a, j, i, i + 2), IsEqualMax(a, j, i + 2, i + 4)) = 1

\* obj_var = Sum of all shift variables: its lower end under a
ObjMin(a) == SumOver([k \in 1..Len(a) |-> a[k]], 1..Len(a))

\* variant: a minimizer with step 0
ObjectiveConstraint_NoStep(a) ==
    IF pc = "solve1" /\ found_initial_solution
    THEN ObjMin(a) <= best
    ELSE TRUE

\* obj_monitor = Minimize(obj_var, step): once a solution is held, only
\* assignments at least step below it are admitted (search 1 only)
ObjectiveConstraint(a) ==
    IF pc = "solve1" /\ found_initial_solution
    THEN ObjMin(a) <= best - step
    ELSE TRUE

\* the constraint store has not detected a contradiction under a: every
\* posted constraint can still hold given the variables' current domains.
\* (A store that detects a contradiction earlier enters fewer dead branches;
\* the solutions and the order in which they are reached are the same.)
Consistent(a) ==
    /\ DemandConstraint(a)
    /\ DurationConstraint(a)
    /\ WindowConstraint(a)
    /\ ObjectiveConstraint(a)

\* variant: an objective over the first driver's row only
ObjectiveValue_FirstRow(a) == RowMin(a, 1)

\* obj_var is bound once every variable is: its value
ObjectiveValue(a) == ObjMin(a)

\* ------------------------------------------------------------------- inputs
DemandVals == 0..MaxDemand

\* a forecast of n slots: a base level with one interval at another level
Forecasts(n) ==
    { [i \in 1..n |-> IF lo <= i /\ i <= hi THEN p ELSE b] :
        <<b, p, lo, hi>> \in DemandVals \X DemandVals \X (1..n) \X (1..n) }
    \cup { [i \in 1..n |-> b] : b \in DemandVals }

\* a flat forecast with a negative value in one slot
NegativeForecasts(n) ==
    { [i \in 1..n |-> IF i = k THEN -1 ELSE b] :
        <<b, k>> \in DemandVals \X (1..n) }

Inputs ==
    { <<d, dem>> \in (0..MaxDrivers)
                     \X UNION { Forecasts(n) \cup NegativeForecasts(n) : n \in 0..MaxSlots } :
        d <= 0 \/ d * Len(dem) <= MaxVars }

\* the inputs of the runs checked under fairness
FairInputs ==
    { in \in Inputs : Len(in[2]) <= MaxFairVars /\ in[1] * Len(in[2]) <= MaxFairVars }

\* the state after the model is built and before the first search step
InitWith(I) ==
    /\ \E in \in I : drivers = in[1] /\ demand = in[2]
    /\ pc = "solve1"
    /\ bound = << >>
    /\ best = 0
    /\ found_initial_solution = FALSE
    /\ nsol = 0
    /\ solutions = << >>
    /\ done = FALSE
    /\ crossed = {}
    /\ outcome = "none"

Init == InitWith(Inputs)

FairInit == InitWith(FairInputs)

Searching == pc \in {"solve1", "solve2"}

HasZero(a) == \E k \in 1..Len(a) : a[k] = 0

LastZero(a) == CHOOSE k \in 1..Len(a) : a[k] = 0 /\ \A m \in (k + 1)..Len(a) : a[m] = 1

\* variant: the last decision is flipped, whatever it was
Backtrack_FlipLast(a) == [a EXCEPT ![Len(a)] = 1 - a[Len(a)]]

\* undo decisions up to the deepest one whose left branch (value 0) was
\* taken and take its right branch (value 1)
Backtrack(a) == Append(SubSeq(a, 1, LastZero(a) - 1), 1)

\* Solve returns: search 1 is followed by search 2 (EnterSearch resets the
\* collector), search 2 by the report
EndSearch ==
    IF pc = "solve1"
    THEN /\ pc' = "solve2"
         /\ bound' = << >>
         /\ nsol' = 0
         /\ solutions' = << >>
         /\ done' = FALSE
         /\ outcome' = outcome
    ELSE /\ pc' = "done"
         /\ bound' = bound
         /\ nsol' = nsol
         /\ solutions' = solutions
         /\ done' = done
         /\ outcome' = IF nsol > 0 THEN "solved" ELSE "nosolution"

\* CHOOSE_FIRST_UNBOUND: the variables bound are always a prefix of s_flat
FirstUnbound(a) == Len(a) + 1

\* variant: the largest value of the chosen variable's domain first
ASSIGN_MAX_VALUE(a) == num_vals - 1

\* ASSIGN_MIN_VALUE: the smallest value of the chosen variable's domain
ASSIGN_MIN_VALUE(a) == 0

\* Phase(s_flat, CHOOSE_FIRST_UNBOUND, ASSIGN_MIN_VALUE): left branch
Branch ==
    /\ Searching
    /\ Consistent(bound)
    /\ Len(bound) < NumVars
    /\ bound' = [k \in 1..FirstUnbound(bound) |->
                    IF k <= Len(bound) THEN bound[k] ELSE ASSIGN_MIN_VALUE(bound)]
    /\ UNCHANGED <<drivers, demand, pc, best, found_initial_solution,
                   nsol, solutions, done, crossed, outcome>>

\* a contradiction: refute the deepest open decision
Refute ==
    /\ Searching
    /\ ~ Consistent(bound)
    /\ HasZero(bound)
    /\ bound' = Backtrack(bound)
    /\ UNCHANGED <<drivers, demand, pc, best, found_initial_solution,
                   nsol, solutions, done, crossed, outcome>>

\* a contradiction with no open decision left: the tree is exhausted
Exhausted ==
    /\ Searching
    /\ ~ Consistent(bound)
    /\ ~ HasZero(bound)
    /\ EndSearch
    /\ UNCHANGED <<drivers, demand, best, found_initial_solution, crossed>>

\* FirstSolutionCollector.AtSolution: keep the first solution of the search
Collect(a) ==
    IF done THEN solutions
    ELSE Append(solutions, [values |-> a, objective |-> ObjectiveValue(a)])

\* search 1, all variables bound: the minimizer takes the value and asks
\* for the search to go on
AtSolution1 ==
    /\ pc = "solve1"
    /\ Consistent(bound)
    /\ Len(bound) = NumVars
    /\ nsol' = nsol + 1
    /\ solutions' = Collect(bound)
    /\ done' = TRUE
    /\ best' = ObjectiveValue(bound)
    /\ found_initial_solution' = TRUE
    /\ UNCHANGED <<drivers, demand, pc, bound, crossed, outcome>>

\* search 2, all variables bound: no monitor asks to go on, Solve returns
AtSolution2 ==
    /\ pc = "solve2"
    /\ Consistent(bound)
    /\ Len(bound) = NumVars
    /\ nsol' = nsol + 1
    /\ solutions' = Collect(bound)
    /\ done' = TRUE
    /\ pc' = "done"
    /\ outcome' = "solved"
    /\ UNCHANGED <<drivers, demand, bound, best, found_initial_solution, crossed>>

\* time_limit_ms: the limit is crossed, the running search is abandoned
TimeLimit ==
    /\ Searching
    /\ crossed' = crossed \cup {pc}
    /\ EndSearch
    /\ UNCHANGED <<drivers, demand, best, found_initial_solution>>

Next ==
    \/ Branch
    \/ Refute
    \/ Exhausted
    \/ AtSolution1
    \/ AtSolution2
    \/ TimeLimit

Spec == Init /\ [][Next]_vars

\* the interpreter keeps running the program: some step is always taken
FairSpec == FairInit /\ [][Next]_vars /\ WF_vars(Next)

\* ------------------------------------------------------------------- report
Solved == pc = "done" /\ outcome = "solved"

\* collector.Value(0, shifts[(j, i)])
Value(j, i) == solutions[1].values[FlatIndex(j, i)]

\* collector.ObjectiveValue(0)
ReportedObjective == solutions[1].objective

TypeOK ==
    /\ pc \in {"solve1", "solve2", "done"}
    /\ outcome \in {"none", "solved", "nosolution"}
    /\ Len(bound) <= NumVars
    /\ \A k \in 1..Len(bound) : bound[k] \in 0..(num_vals - 1)
    /\ Len(solutions) <= 1
    /\ crossed \subseteq {"solve1", "solve2"}

\* ------------------------------------------------- what the claims speak of
\* a row of n slots meets the duration bounds and both window rules
RowAdmissible(r, n) ==
    /\ Cardinality({i \in 1..n : r[i] = 1}) >= 4
    /\ Cardinality({i \in 1..n : r[i] = 1}) <= 10
    /\ \A i \in 1..(n - 2) : r[i] = r[i + 1] \/ r[i + 1] = r[i + 2]
    /\ \A i \in 1..(n - 4) : r[i] = r[i + 2] \/ r[i + 2] = r[i + 4]

AdmissibleRows == [n \in 0..MaxSlots |-> {r \in [1..n -> {0, 1}] : RowAdmissible(r, n)}]

\* every drivers x slots 0/1 matrix that satisfies all posted constraints
FeasibleMatrices ==
    { m \in [DriverRange -> AdmissibleRows[slots]] :
        \A i \in SlotRange : Cardinality({j \in DriverRange : m[j][i] = 1}) >= demand[i] }

MatrixTotal(m) ==
    SumOver([j \in DriverRange |-> Cardinality({i \in SlotRange : m[j][i] = 1})], DriverRange)

\* entry k of the row-major flattening of m
FlatEntry(m, k) == m[((k - 1) \div slots) + 1][((k - 1) % slots) + 1]

\* the flattened assignment a does not come after m in lexicographic order
LexLeq(a, m) ==
    \/ \A k \in 1..NumVars : a[k] = FlatEntry(m, k)
    \/ \E k \in 1..NumVars :
          /\ a[k] < FlatEntry(m, k)
          /\ \A l \in 1..(k - 1) : a[l] = FlatEntry(m, l)

RowOnes(j) == Cardinality({i \in SlotRange : Value(j, i) = 1})

ColOnes(i) == Cardinality({j \in DriverRange : Value(j, i) = 1})

ReportedTotal == SumOver([j \in DriverRange |-> RowOnes(j)], DriverRange)

TotalDemand == SumOver(demand, SlotRange)

NoCutOff == crossed = {}

\* C1: every assignment reported as solved satisfies coverage, the duration
\* bounds 4..10 and both window rules.
C1_ReportedSatisfiesConstraints ==
    Solved =>
       /\ \A i \in SlotRange : ColOnes(i) >= demand[i]
       /\ \A j \in DriverRange : RowOnes(j) >= 4 /\ RowOnes(j) <= 10
       /\ \A j \in DriverRange :
             /\ \A i \in 1..(slots - 2) :
                   Value(j, i) = Value(j, i + 1) \/ Value(j, i + 1) = Value(j, i + 2)
             /\ \A i \in 1..(slots - 4) :
                   Value(j, i) = Value(j, i + 2) \/ Value(j, i + 2) = Value(j, i + 4)

C1_Witness ==
    /\ Solved
    /\ drivers = 2
    /\ slots >= 5
    /\ \E i \in SlotRange : demand[i] = 2

\* C2: in every reported assignment each driver's working slots form one
\* contiguous run: no slot at 0 lies between two slots at 1.
C2_SingleContiguousRun ==
    Solved =>
       \A j \in DriverRange :
          \A i1, i2, i3 \in SlotRange :
             (i1 < i2 /\ i2 < i3 /\ Value(j, i1) = 1 /\ Value(j, i3) = 1)
                => Value(j, i2) = 1

\* C3: without a time-limit cut-off no feasible matrix has a smaller total
\* than the reported objective value.
C3_ReportedIsMinimal ==
    (Solved /\ NoCutOff) =>
       \A m \in FeasibleMatrices : MatrixTotal(m) >= ReportedObjective

\* C4: the reported objective value equals the sum of all entries of the
\* reported assignment matrix.
C4_ObjectiveIsMatrixSum == Solved => ReportedObjective = ReportedTotal

C4_Witness == Solved /\ drivers = 2 /\ ReportedObjective >= 9

InvalidInput ==
    \/ drivers <= 0
    \/ slots <= 0
    \/ \E i \in SlotRange : demand[i] < 0

\* C6 as stated: for drivers <= 0, an empty demand vector or a negative
\* demand value no search step is taken and neither a solved nor a
\* no-solution result is reported.
C6_InvalidInputRejected ==
    InvalidInput => (bound = << >> /\ nsol = 0 /\ pc = "solve1" /\ outcome = "none")

\* C6 as amended: such input is not rejected; the run ends in the solved or
\* the no-solution branch like any other. Without a cut-off: with
\* drivers <= 0 a solution (objective 0) is reported exactly when no demand
\* value is positive, with drivers >= 1 and an empty demand vector none is,
\* and a negative demand value constrains nothing.
C6_InvalidInputIsSearched ==
    (InvalidInput /\ pc = "done") =>
       /\ outcome \in {"solved", "nosolution"}
       /\ (Solved /\ drivers <= 0) => ReportedObjective = 0
       /\ NoCutOff =>
             /\ drivers <= 0 =>
                   ((outcome = "solved") <=> (\A i \in SlotRange : demand[i] <= 0))
             /\ (drivers >= 1 /\ slots = 0) => outcome = "nosolution"
             /\ (outcome = "solved") <=> (FeasibleMatrices # {})

C6_Witness ==
    /\ pc = "done"
    /\ NoCutOff
    /\ outcome = "solved"
    /\ drivers >= 1
    /\ \E i \in SlotRange : demand[i] < 0

\* C7: every run ends, in exactly one of the solved branch and the
\* 'No solution found' branch.
C7_EventuallyDefiniteOutcome ==
    <>(pc = "done" /\ outcome \in {"solved", "nosolution"})

C7_Witness == pc = "done" /\ "solve2" \in crossed /\ drivers >= 1 /\ slots >= 4

\* C8: during search 1 the value held by the minimizer never increases, and
\* each newly accepted solution is at least the step 1 below the held one.
C8_BestNeverIncreases ==
    [][ /\ found_initial_solution => best' <= best
        /\ (found_initial_solution /\ nsol' = nsol + 1 /\ pc = "solve1")
              => best' <= best - 1 ]_vars

C8_Witness == pc = "solve1" /\ nsol >= 2

\* C9: each search step binds the first unbound variable of the row-major
\* flattening to 0, or backtracks to the deepest variable at 0 and sets it
\* to 1; the first solution a search collects is the lexicographically
\* smallest feasible matrix.
C9_LexicographicOrder ==
    [][ /\ (Searching /\ pc' = pc) =>
             \/ bound' = Append(bound, 0)
             \/ /\ Len(bound') <= Len(bound)
                /\ Len(bound') >= 1
                /\ bound[Len(bound')] = 0
                /\ bound'[Len(bound')] = 1
                /\ \A k \in 1..(Len(bound') - 1) : bound'[k] = bound[k]
                /\ \A k \in (Len(bound') + 1)..Len(bound) : bound[k] = 1
             \/ bound' = bound
        /\ (solutions = << >> /\ solutions' # << >>) =>
             \A m \in FeasibleMatrices : LexLeq(solutions'[1].values, m) ]_vars

C9_Witness ==
    /\ solutions # << >>
    /\ drivers = 2
    /\ \E k \in 1..slots : solutions[1].values[k] = 1 /\ solutions[1].values[k + 1] = 0

====
